---------------------------- MODULE Spec2Model ----------------------------
(***************************************************************************)
(* Model of src/jet-ssd-train.py: the distributed, quantization-aware      *)
(* training loop `execute`, run by world_size processes (one per rank).    *)
(*                                                                         *)
(* The program state is looked at through two specifications:              *)
(*   Spec         all ranks, their position in `execute`, the collectives  *)
(*                (all_reduce in reduce_tensor, dist.barrier), the         *)
(*                validation meters and the early-stopping gate of rank 0; *)
(*   SpecTernary  the weights of rank 0's network through the epoch loop   *)
(*                (the weight tensors are rank-local: no statement of      *)
(*                `execute` reads another rank's weights; the other ranks  *)
(*                run the same statements, except that they never break).  *)
(*                                                                         *)
(* Float scalars are exact rationals [num, den] in lowest terms.  Weight   *)
(* elements are fixed-point integers, Scale units making 1.0.              *)
(* EarlyStopping (ssd.checkpoints), AverageMeter (utils) and get_delta,    *)
(* get_alpha, to_ternary (ssd.qutils) are imported by the file and not     *)
(* part of it: they are modelled from spec.md (sections 3, 4.1, 4.4).      *)
(***************************************************************************)
EXTENDS Integers, Sequences, FiniteSets, TLC

\* ------------------------------------------------------------------ bounds
NRanks == 2
MaxEpochs == 3
MaxPatience == 2
MaxTrainBatches == 1
MaxValBatches == 1
MaxLoss == 2
MaxReg == 1
MaxQuantBatches == 2
MaxGrad == 1
WeightLen == 2
Scale == 2
LongRun == 31
MaxLocalBatches == 2
MaxMetric == 1

Ranks == 0 .. (NRanks - 1)
world_size == NRanks
max_epochs == MaxEpochs

\* The LossVectors (l, c, r, d) the criterion may return for a batch.
LossTuples == { << v, MaxLoss + 1 - v, v, 1 >> : v \in 1 .. MaxLoss }

\* The components of a LossVector, in the order reduce_tensor reduces them.
LOC == 1
CLS == 2
REG == 3
DISCO == 4

VARIABLES
    \* ---- Spec: the run's configuration (arguments of execute)
    disco_mode,        \* args.disco_mode
    flop_regularizer,  \* args.flop_regularizer
    patience,          \* training_pref['patience']
    n_train,           \* len(train_loader)
    n_val,             \* len(val_loader)
    learning_rate,     \* training_pref['learning_rate']
    \* ---- Spec: per rank
    pc,                \* position in execute
    epoch,             \* the loop variable of line 153 (0 before the loop)
    batch_index,       \* batches of the current pass already processed
    env_world_size,    \* os.environ['WORLD_SIZE'] of the process (0: unset)
    in_group,          \* the process group exists in this process
    rflop,             \* the regularization scalar of the last training batch
    lcrd,              \* l, c, r, d of the current validation batch
    ridx,              \* reduce_tensor: the component whose all_reduce is next
    issued,            \* the components whose all_reduce the rank has called
                       \* for the current validation batch, in order
    red,               \* reduce_tensor: its local loc, cls, reg, disco
    meter_sum,         \* loc / cls / reg / disco AverageMeter .sum
    meter_count,       \* their .count
    vloss,             \* vloss of the epoch (line 333/334)
    sched_steps,       \* scheduler.step() calls so far
    barriers,          \* dist.barrier() calls that have returned
    barrier_calls,     \* dist.barrier() calls made
    \* ---- Spec: shared
    coll,              \* the collective in progress in the process group
    cp_es,             \* EarlyStopping object of rank 0
    objs,              \* the objectives rank 0 handed to cp_es, in order
    stopEpoch,         \* the epoch in which cp_es returned True (0: none)
    \* ---- SpecTernary: one rank and the weights of its network's modules
    ternary,           \* args.ternary
    t_pc,              \* the position of rank 0 in execute
    t_epoch,           \* its loop variable of line 153
    t_batch,           \* training batches of the epoch already processed
    weight_data,       \* m.weight.data of every module m
    weight_org,        \* m.weight.org (NoTensor: the attribute is not set)
    weight_delta,      \* m.weight.delta (NoScalar: not set)
    weight_alpha,      \* m.weight.alpha (NoScalar: not set)
    pre_tern,          \* m.weight.data at the head of the current batch
    clamped,           \* m.weight.data as line 247 left it in the latest batch
    cycle,             \* the quantizer steps of the current batch (or of the
                       \* validation pass), in order
    da_log,            \* per module, what the current epoch did with delta
                       \* and alpha so far: << "assign", delta, alpha >> for
                       \* lines 182-183, << "use", delta, alpha >> for the
                       \* to_ternary call of lines 192-194
    \* ---- SpecLocal: one rank's optimizer and scheduler
    l_pc,              \* the position of the rank in execute
    l_epoch,           \* its loop variable of line 153
    l_batch,           \* batches of the current pass already processed
    lr,                \* optimizer.param_groups[0]['lr']
    last_epoch,        \* scheduler.last_epoch: the scheduler.step() calls
    \* ---- SpecLocal: the rank's metric meters and rows
    boxMetrics,        \* boxMetrics of the latest training batch
    eventMetrics,      \* eventMetrics of the latest training batch
    boxMetricsVal,     \* boxMetricsVal of the latest validation batch
    eventMetricsVal,   \* eventMetricsVal of the latest validation batch
    box_sum,           \* boxPreSUEP, boxPreQCD, boxRecSUEP, boxRecQCD: .sum
    box_count,         \* their .count
    event_sum,         \* eventPre, eventRec: .sum
    event_count,       \* their .count
    tboxmetrics,       \* the epoch's training row of box metrics
    tmetrics,          \* the epoch's training row of event metrics
    vboxmetrics,       \* the epoch's validation row of box metrics
    vmetrics,          \* the epoch's validation row of event metrics
    val_produced,      \* what criterion returned in this validation pass
    \* ---- SpecLayer: one call of is_first_or_last
    layer,             \* its argument
    returned,          \* the value it returned (<< >> before the call)
    \* ---- SpecDrift: the loss history of one rank
    w_init,            \* m.weight.data of every module when the loop starts
    fwd_pass,          \* per batch of the current training pass: the weights
                       \* its forward pass ran with
    train_loss,        \* train_loss, a column per epoch: SpecDrift keeps what
                       \* the column is computed from, SpecHistory its rows
    val_loss,          \* val_loss, likewise
    \* ---- SpecHistory: the six history matrices of one rank
    loss_sum,          \* the sums of the meters loc, cls, reg, disco
    loss_count,        \* their counts
    train_metrics,     \* train_metrics, a column per epoch
    val_metrics,       \* val_metrics
    train_boxmetrics,  \* train_boxmetrics
    val_boxmetrics     \* val_boxmetrics

cfgVars == << disco_mode, flop_regularizer, patience, n_train, n_val,
             learning_rate >>

distVars == << pc, epoch, batch_index, env_world_size, in_group, rflop, lcrd,
               ridx, issued, red, meter_sum, meter_count, vloss, sched_steps,
               barriers, barrier_calls, coll, cp_es, objs, stopEpoch >>

ternVars == << ternary, t_pc, t_epoch, t_batch, weight_data,
               weight_org, weight_delta, weight_alpha, pre_tern, clamped,
               cycle, da_log >>

meterVars == << boxMetrics, eventMetrics, boxMetricsVal, eventMetricsVal,
                box_sum, box_count, event_sum, event_count, tboxmetrics,
                tmetrics, vboxmetrics, vmetrics, val_produced >>

localVars == << l_pc, l_epoch, l_batch, lr, last_epoch, meterVars >>

\* What neither Spec nor SpecTernary looks at.
layerVars == << layer, returned >>

recVars == << loss_sum, loss_count, train_metrics, val_metrics,
              train_boxmetrics, val_boxmetrics >>

otherVars == << localVars, layerVars, recVars >>

\* A loss of a batch is a function of the batch and of the weights the
\* forward pass runs with; the batches being the same in every epoch, the
\* history keeps those weights, of which every loss is a function.
histVars == << w_init, fwd_pass, train_loss, val_loss >>

\* The loss meters and the six history matrices.
bookVars == << recVars, train_loss, val_loss >>

vars == << cfgVars, distVars, ternVars, otherVars, histVars >>

\* ---------------------------------------------------------------- rationals
RECURSIVE GCD(_, _)
GCD(a, b) == IF b = 0 THEN a ELSE GCD(b, a % b)

Abs(x) == IF x < 0 THEN -x ELSE x

\* n / d as a float value: the rational in lowest terms (d > 0).
Rat(n, d) ==
    LET g == GCD(Abs(n), d)
    IN  [num |-> n \div g, den |-> d \div g]

RAdd(a, b) == Rat(a.num * b.den + b.num * a.den, a.den * b.den)
RDiv(a, k) == Rat(a.num, a.den * k)
RMul(a, b) == Rat(a.num * b.num, a.den * b.den)
RLess(a, b) == a.num * b.den < b.num * a.den
Zero == Rat(0, 1)

RECURSIVE SumOver(_, _)
SumOver(f, S) ==
    IF S = {} THEN 0
    ELSE LET x == CHOOSE y \in S : TRUE
         IN  f[x] + SumOver(f, S \ {x})

Components == IF disco_mode THEN {LOC, CLS, REG, DISCO} ELSE {LOC, CLS, REG}

ZeroVec == [i \in 1 .. 4 |-> Zero]
NoBatch == [i \in 1 .. 4 |-> 0]

\* ------------------------------------------------------------ collectives
NoColl == [kind |-> "none", val |-> [q \in Ranks |-> 0],
           arrived |-> {}, departed |-> {}]

\* Rank r enters a blocking collective of the given kind with value v.
CanArrive(r, kind) ==
    /\ in_group[r]
    /\ r \notin coll.arrived
    /\ coll.kind \in {"none", kind}

Arrived(r, kind, v) ==
    [coll EXCEPT !.kind = kind, !.val[r] = v, !.arrived = @ \cup {r}]

\* A collective that returns without waiting for the other ranks.
CanDepart_alone(r) == r \notin coll.departed

\* The collective completes for r once every rank of the group has entered it.
CanDepart(r) ==
    /\ coll.arrived = Ranks
    /\ r \notin coll.departed

Departed(r) ==
    IF coll.departed \cup {r} = Ranks THEN NoColl
    ELSE [coll EXCEPT !.departed = @ \cup {r}]

\* dist.all_reduce: the sum over the ranks of the values they entered with.
all_reduce == SumOver(coll.val, Ranks)

\* ------------------------------------------------------------ AverageMeter
\* meter.avg: 0 after reset(), otherwise sum / count.
Avg(r, i) ==
    IF meter_count[r][i] = 0 THEN Zero
    ELSE RDiv(meter_sum[r][i], meter_count[r][i])

\* ----------------------------------------------------------- EarlyStopping
NoBest == [num |-> -1, den |-> 0]

\* cp_es(objective, model): the state after the call and the value returned.
es_improved(es, obj) == es.best = NoBest \/ RLess(obj, es.best)

\* An improvement that persists no checkpoint.
es_after_nosave(es, obj, e) ==
    IF es_improved(es, obj)
    THEN [es EXCEPT !.best = obj, !.counter = 0]
    ELSE [es EXCEPT !.counter = @ + 1]

es_after(es, obj, e) ==
    IF es_improved(es, obj)
    THEN [best |-> obj, counter |-> 0, saved |-> e]
    ELSE [es EXCEPT !.counter = @ + 1]

es_stop(es, obj) ==
    /\ ~es_improved(es, obj)
    /\ es.counter + 1 >= patience

\* vloss.sum(0) + rflop.cpu()
Objective(r) ==
    LET RECURSIVE Tot(_)
        Tot(S) == IF S = {} THEN Zero
                  ELSE LET i == CHOOSE j \in S : TRUE
                       IN  RAdd(vloss[r][i], Tot(S \ {i}))
    IN  RAdd(Tot(Components), Rat(rflop[r], 1))

\* ----------------------------------------------------------- the network
NoTensor == << >>
NoScalar == "unset"

\* Line 375: the kernel size of an eligible convolution.
EligibleKernel == 3
\* Line 376: in_channels must exceed this.
MinInChannels == 3
\* Line 377: out_channels must exceed this.
MinOutChannels == 4

\* net.modules(): the first convolution (3 input channels), an interior
\* 3x3 convolution and a batch-norm layer.
modules ==
    << [kind |-> "Conv2d", kernel_size |-> << 3, 3 >>, in_channels |-> 3,
        out_channels |-> 8, numel |-> 1],
       [kind |-> "Conv2d", kernel_size |-> << 3, 3 >>, in_channels |-> 8,
        out_channels |-> 16, numel |-> WeightLen],
       [kind |-> "BatchNorm2d", kernel_size |-> << >>, in_channels |-> 0,
        out_channels |-> 0, numel |-> 0] >>

Modules == DOMAIN modules

\* Lines 373-377 without the kernel_size comparison of line 375.
is_first_or_last_anykernel(m) ==
    /\ m.kind = "Conv2d"
    /\ m.in_channels > MinInChannels
    /\ m.out_channels > MinOutChannels

\* Lines 373-377.
is_first_or_last(m) ==
    /\ m.kind = "Conv2d"
    /\ m.kernel_size = << EligibleKernel, EligibleKernel >>
    /\ m.in_channels > MinInChannels
    /\ m.out_channels > MinOutChannels

Eligible == { m \in Modules : is_first_or_last(modules[m]) }

\* The layers is_first_or_last may be handed: every module of a network.
KernelSizes == {<< 1, 1 >>, << 3, 3 >>, << 3, 1 >>, << 5, 5 >>}
InChannels == {1, 3, 4, 8}
OutChannels == {3, 4, 5, 16}
Layers ==
    [kind : {"Conv2d"}, kernel_size : KernelSizes, in_channels : InChannels,
     out_channels : OutChannels, numel : {0}]
    \cup [kind : {"Conv1d"}, kernel_size : {<< 3 >>}, in_channels : InChannels,
          out_channels : OutChannels, numel : {0}]
    \cup [kind : {"BatchNorm2d", "Linear", "ReLU"}, kernel_size : {<< >>},
          in_channels : {0}, out_channels : {0}, numel : {0}]

\* Weight elements are fixed-point: Scale units are 1.0.
One == Scale
WMax == Scale + MaxGrad
Elems == (-WMax) .. WMax
Tensors(n) == [1 .. n -> Elems]

RECURSIVE SumAbs(_)
SumAbs(w) == IF w = << >> THEN 0 ELSE Abs(Head(w)) + SumAbs(Tail(w))

\* ssd.qutils.get_delta: the threshold, 0.7 of the mean magnitude.
get_delta(w) ==
    IF Len(w) = 0 THEN 0 ELSE (7 * SumAbs(w)) \div (10 * Len(w))

\* ssd.qutils.get_alpha: the mean magnitude of the elements above delta.
get_alpha(w, delta) ==
    LET above == SelectSeq(w, LAMBDA x : Abs(x) > delta)
    IN  IF Len(above) = 0 THEN 0 ELSE SumAbs(above) \div Len(above)

\* ssd.qutils.to_ternary(tensor, delta, alpha): each element in
\* {-alpha, 0, +alpha} by thresholding against delta.
to_ternary(w, delta, alpha) ==
    [k \in DOMAIN w |-> IF w[k] > delta THEN alpha
                        ELSE IF w[k] < -delta THEN -alpha
                        ELSE 0]

\* ssd.qutils.to_ternary(tensor): delta and alpha are not passed (line 295)
\* and are computed from the tensor.
to_ternary_default(w) ==
    to_ternary(w, get_delta(w), get_alpha(w, get_delta(w)))

\* Tensor.clamp_(-1, 1), line 247.
clamp(w) ==
    [k \in DOMAIN w |-> IF w[k] > One THEN One
                        ELSE IF w[k] < -One THEN -One
                        ELSE w[k]]

InRange(w) == \A k \in DOMAIN w : -One <= w[k] /\ w[k] <= One

\* ------------------------------------------------------------ MultiStepLR
\* Lines 115-118: milestones=[20, 30, 50, 60, 70, 80, 90], gamma=0.5.
milestones == {20, 30, 50, 60, 70, 80, 90}
gamma == Rat(1, 2)

\* The rates training_pref['learning_rate'] is drawn from.
LearningRates == {Rat(1, 10), Rat(1, 5)}

\* A scheduler that never decays.
Decay_none(x) == x

\* MultiStepLR at a milestone: the rate is multiplied by gamma.
Decay(x) == RMul(x, gamma)

\* MultiStepLR.step(): the rate of the optimizer once last_epoch has become
\* le (a milestone appears once in the list of line 116).
MultiStepLR(x, le) == IF le \in milestones THEN Decay(x) ELSE x

\* ----------------------------------------------------- metrics and meters
\* The (boxMetrics, eventMetrics) pairs criterion may return for a batch:
\* boxMetrics is indexed [precision, recall][background, SUEP, QCD],
\* eventMetrics [precision, recall].
MetricPairs ==
    { [box |-> << << 0, v, MaxMetric - v >>, << 0, MaxMetric - v, v >> >>,
       event |-> << v, MaxMetric - v >>] : v \in 0 .. MaxMetric }

NoMetrics == << >>

\* The arguments of the four box meters' update, lines 226-229 and 316-319:
\* b[0][1], b[0][2], b[1][1], b[1][2].
BoxEntries(b) == << b[1][2], b[1][3], b[2][2], b[2][3] >>

\* The arguments of the two event meters' update, lines 230-231, 320-321.
EventEntries(e) == << e[1], e[2] >>

\* AverageMeter.reset(), AverageMeter.update(val) and .avg for a family of
\* meters held as a tuple.
MetersReset(n) == [k \in 1 .. n |-> 0]
MetersUpdate(sums, vals) == [k \in DOMAIN sums |-> sums[k] + vals[k]]
MetersCount(counts) == [k \in DOMAIN counts |-> counts[k] + 1]
MetersAvg(sums, counts) ==
    [k \in DOMAIN sums |-> IF counts[k] = 0 THEN Zero
                           ELSE Rat(sums[k], counts[k])]

\* -------------------------------------------------------------------- Init
\* Neither Spec nor SpecTernary looks at the optimizer's rate or at the
\* metric meters.
MetersIdle ==
    /\ boxMetrics = NoMetrics
    /\ eventMetrics = NoMetrics
    /\ boxMetricsVal = NoMetrics
    /\ eventMetricsVal = NoMetrics
    /\ box_sum = << >>
    /\ box_count = << >>
    /\ event_sum = << >>
    /\ event_count = << >>
    /\ tboxmetrics = << >>
    /\ tmetrics = << >>
    /\ vboxmetrics = << >>
    /\ vmetrics = << >>
    /\ val_produced = << >>

LocalIdle ==
    /\ l_pc = "idle"
    /\ l_epoch = 0
    /\ l_batch = 0
    /\ lr = Zero
    /\ last_epoch = 0
    /\ MetersIdle

\* Only SpecLayer looks at a single call of is_first_or_last.
LayerIdle ==
    /\ layer = << >>
    /\ returned = << >>

\* Only SpecDrift looks at the loss history.
HistIdle ==
    /\ w_init = << >>
    /\ fwd_pass = << >>
    /\ train_loss = << >>
    /\ val_loss = << >>

\* Only SpecHistory looks at the loss meters and the metric histories.
RecIdle ==
    /\ loss_sum = << >>
    /\ loss_count = << >>
    /\ train_metrics = << >>
    /\ val_metrics = << >>
    /\ train_boxmetrics = << >>
    /\ val_boxmetrics = << >>

OtherIdle == LocalIdle /\ LayerIdle /\ RecIdle

\* Spec does not look at the weights.
TernIdle ==
    /\ ternary = FALSE
    /\ t_pc = "idle"
    /\ t_epoch = 0
    /\ t_batch = 0
    /\ weight_data = << >>
    /\ weight_org = << >>
    /\ weight_delta = << >>
    /\ weight_alpha = << >>
    /\ pre_tern = << >>
    /\ clamped = << >>
    /\ cycle = << >>
    /\ da_log = << >>

Init ==
    /\ disco_mode \in BOOLEAN
    /\ flop_regularizer \in BOOLEAN
    /\ patience \in 1 .. MaxPatience
    /\ n_train \in 1 .. MaxTrainBatches
    /\ n_val \in 1 .. MaxValBatches
    /\ learning_rate = Rat(1, 10)
    /\ pc = [r \in Ranks |-> "setup"]
    /\ epoch = [r \in Ranks |-> 0]
    /\ batch_index = [r \in Ranks |-> 0]
    /\ env_world_size = [r \in Ranks |-> 0]
    /\ in_group = [r \in Ranks |-> FALSE]
    /\ rflop = [r \in Ranks |-> 0]
    /\ lcrd = [r \in Ranks |-> NoBatch]
    /\ ridx = [r \in Ranks |-> 0]
    /\ issued = [r \in Ranks |-> << >>]
    /\ red = [r \in Ranks |-> ZeroVec]
    /\ meter_sum = [r \in Ranks |-> ZeroVec]
    /\ meter_count = [r \in Ranks |-> NoBatch]
    /\ vloss = [r \in Ranks |-> ZeroVec]
    /\ sched_steps = [r \in Ranks |-> 0]
    /\ barriers = [r \in Ranks |-> 0]
    /\ barrier_calls = [r \in Ranks |-> 0]
    /\ coll = NoColl
    /\ cp_es = [best |-> NoBest, counter |-> 0, saved |-> 0]
    /\ objs = << >>
    /\ stopEpoch = 0
    /\ TernIdle
    /\ OtherIdle
    /\ HistIdle

\* ----------------------------------------------------------------- actions
\* Lines 55-151: setup(rank, world_size), loaders, network, optimizer,
\* scheduler, cp_es on rank 0, meters.
Setup(r) ==
    /\ pc[r] = "setup"
    /\ env_world_size' = [env_world_size EXCEPT ![r] = world_size]
    /\ in_group' = [in_group EXCEPT ![r] = TRUE]
    /\ pc' = [pc EXCEPT ![r] = "epoch_head"]
    /\ UNCHANGED << cfgVars, ternVars, otherVars, histVars,
                    epoch, batch_index, rflop, lcrd, ridx, issued, red, meter_sum,
                    meter_count, vloss, sched_steps, barriers, barrier_calls, coll, cp_es,
                    objs, stopEpoch >>

\* range(1, max_epochs) in place of line 153's range(1, max_epochs + 1).
HasNextEpoch_short(e) == e < max_epochs - 1

\* Line 153: range(1, max_epochs + 1) has another epoch.
HasNextEpoch(e) == e < max_epochs

\* Lines 153-183: the next epoch starts (meters reset, net.train()), or the
\* loop is exhausted and execute goes on to cleanup().
EpochHead(r) ==
    /\ pc[r] = "epoch_head"
    /\ IF HasNextEpoch(epoch[r])
       THEN /\ epoch' = [epoch EXCEPT ![r] = @ + 1]
            /\ meter_sum' = [meter_sum EXCEPT ![r] = ZeroVec]
            /\ meter_count' = [meter_count EXCEPT ![r] = NoBatch]
            /\ batch_index' = [batch_index EXCEPT ![r] = 0]
            /\ pc' = [pc EXCEPT ![r] = "train"]
       ELSE /\ pc' = [pc EXCEPT ![r] = "cleanup"]
            /\ UNCHANGED << epoch, meter_sum, meter_count, batch_index >>
    /\ UNCHANGED << cfgVars, ternVars, otherVars, histVars,
                    env_world_size, in_group, rflop, lcrd, ridx, issued, red, vloss,
                    sched_steps, barriers, barrier_calls, coll, cp_es, objs, stopEpoch >>

\* Lines 185-257: one training batch; rflop is the regularizer's scalar
\* (line 197) or torch.tensor(0.) (line 199).
TrainBatch(r) ==
    /\ pc[r] = "train"
    /\ batch_index[r] < n_train
    /\ \E v \in 0 .. MaxReg :
          rflop' = [rflop EXCEPT ![r] = IF flop_regularizer THEN v ELSE 0]
    /\ batch_index' = [batch_index EXCEPT ![r] = @ + 1]
    /\ UNCHANGED << cfgVars, ternVars, otherVars, histVars,
                    pc, epoch, env_world_size, in_group, lcrd, ridx, issued, red,
                    meter_sum, meter_count, vloss, sched_steps, barriers, barrier_calls,
                    coll, cp_es, objs, stopEpoch >>

\* Lines 259-295: the training row is finalized, the meters are reset and
\* the validation pass starts.
TrainEnd(r) ==
    /\ pc[r] = "train"
    /\ batch_index[r] = n_train
    /\ meter_sum' = [meter_sum EXCEPT ![r] = ZeroVec]
    /\ meter_count' = [meter_count EXCEPT ![r] = NoBatch]
    /\ batch_index' = [batch_index EXCEPT ![r] = 0]
    /\ pc' = [pc EXCEPT ![r] = "val"]
    /\ UNCHANGED << cfgVars, ternVars, otherVars, histVars,
                    epoch, env_world_size, in_group, rflop, lcrd, ridx, issued, red,
                    vloss, sched_steps, barriers, barrier_calls, coll, cp_es, objs,
                    stopEpoch >>

\* Lines 297-311: forward and criterion of one validation batch, then the
\* call of reduce_tensor (line 381, 389: the clones).
ValForward(r) ==
    /\ pc[r] = "val"
    /\ batch_index[r] < n_val
    /\ \E t \in LossTuples :
          lcrd' = [lcrd EXCEPT ![r] =
                      [t EXCEPT ![DISCO] = IF disco_mode THEN @ ELSE 0]]
    /\ red' = [red EXCEPT ![r] = ZeroVec]
    /\ ridx' = [ridx EXCEPT ![r] = LOC]
    /\ issued' = [issued EXCEPT ![r] = << >>]
    /\ pc' = [pc EXCEPT ![r] = "red"]
    /\ UNCHANGED << cfgVars, ternVars, otherVars, histVars,
                    epoch, batch_index, env_world_size, in_group, rflop,
                    meter_sum, meter_count, vloss, sched_steps, barriers, barrier_calls,
                    coll, cp_es, objs, stopEpoch >>

\* Lines 382-384, 390: the rank enters dist.all_reduce of component
\* ridx[r] and blocks in it.
ReduceEnter(r) ==
    /\ pc[r] = "red"
    /\ CanArrive(r, "all_reduce")
    /\ coll' = Arrived(r, "all_reduce", lcrd[r][ridx[r]])
    /\ issued' = [issued EXCEPT ![r] = Append(@, ridx[r])]
    /\ pc' = [pc EXCEPT ![r] = "red_wait"]
    /\ UNCHANGED << cfgVars, ternVars, otherVars, histVars,
                    epoch, batch_index, env_world_size, in_group, rflop,
                    lcrd, ridx, red, meter_sum, meter_count, vloss,
                    sched_steps, barriers, barrier_calls, cp_es, objs, stopEpoch >>

\* The division of lines 385-387, 391 left out.
Divide_none(x, r) == x

\* Lines 385-387, 391: x /= int(os.environ['WORLD_SIZE']).
Divide(x, r) == RDiv(x, env_world_size[r])

\* The tensors of reduce_tensor after the all_reduce of component i returned
\* sum s: loc, cls and reg are divided once all three are reduced (lines
\* 385-387), disco right after its own all_reduce (line 391).
AfterReduce(r, i, s) ==
    LET t == [red[r] EXCEPT ![i] = Rat(s, 1)]
    IN  IF i = REG
        THEN [j \in 1 .. 4 |-> IF j \in {LOC, CLS, REG}
                               THEN Divide(t[j], r) ELSE t[j]]
        ELSE IF i = DISCO
        THEN [t EXCEPT ![DISCO] = Divide(t[DISCO], r)]
        ELSE t

\* reduce_tensor without lines 388-392: disco is never reduced.
LastComponent_nodisco == REG

\* Line 388: disco is not None exactly when line 307 passed d.data.
LastComponent == IF disco_mode THEN DISCO ELSE REG

\* Lines 382-393: the all_reduce of component ridx[r] returns; after the
\* last one reduce_tensor is about to return.
ReduceExit(r) ==
    /\ pc[r] = "red_wait"
    /\ CanDepart(r)
    /\ red' = [red EXCEPT ![r] = AfterReduce(r, ridx[r], all_reduce)]
    /\ coll' = Departed(r)
    /\ IF ridx[r] = LastComponent
       THEN /\ pc' = [pc EXCEPT ![r] = "val_update"]
            /\ ridx' = ridx
       ELSE /\ pc' = [pc EXCEPT ![r] = "red"]
            /\ ridx' = [ridx EXCEPT ![r] = @ + 1]
    /\ UNCHANGED << cfgVars, ternVars, otherVars, histVars,
                    epoch, batch_index, env_world_size, in_group, rflop,
                    lcrd, issued, meter_sum, meter_count, vloss, sched_steps,
                    barriers, barrier_calls, cp_es, objs, stopEpoch >>

\* AverageMeter.update(val): sum += val, count += 1.
MeterUpdate(r) ==
    [i \in 1 .. 4 |-> IF i \in Components
                      THEN RAdd(meter_sum[r][i], red[r][i])
                      ELSE meter_sum[r][i]]

CountUpdate(r) ==
    [i \in 1 .. 4 |-> IF i \in Components
                      THEN meter_count[r][i] + 1 ELSE meter_count[r][i]]

\* Lines 307-329: reduce_tensor returns into l, c, r (, d) and the meters
\* are updated with them.
ValUpdate(r) ==
    /\ pc[r] = "val_update"
    /\ meter_sum' = [meter_sum EXCEPT ![r] = MeterUpdate(r)]
    /\ meter_count' = [meter_count EXCEPT ![r] = CountUpdate(r)]
    /\ batch_index' = [batch_index EXCEPT ![r] = @ + 1]
    /\ lcrd' = [lcrd EXCEPT ![r] = NoBatch]
    /\ red' = [red EXCEPT ![r] = ZeroVec]
    /\ ridx' = [ridx EXCEPT ![r] = 0]
    /\ issued' = [issued EXCEPT ![r] = << >>]
    /\ pc' = [pc EXCEPT ![r] = "val"]
    /\ UNCHANGED << cfgVars, ternVars, otherVars, histVars,
                    epoch, env_world_size, in_group, rflop, vloss,
                    sched_steps, barriers, barrier_calls, coll, cp_es, objs, stopEpoch >>

\* Lines 331-358: vloss of the epoch from the meters' averages.
ValEnd(r) ==
    /\ pc[r] = "val"
    /\ batch_index[r] = n_val
    /\ vloss' = [vloss EXCEPT ![r] =
                    [i \in 1 .. 4 |-> IF i \in Components
                                      THEN Avg(r, i) ELSE Zero]]
    /\ pc' = [pc EXCEPT ![r] = "gate"]
    /\ UNCHANGED << cfgVars, ternVars, otherVars, histVars,
                    epoch, batch_index, env_world_size, in_group, rflop,
                    lcrd, ridx, issued, red, meter_sum, meter_count, sched_steps,
                    barriers, barrier_calls, coll, cp_es, objs, stopEpoch >>

\* Line 360 without `rank == 0 and`: every rank calls cp_es.
ConsultsGate_all(r) == TRUE

\* Line 360: only rank 0 calls cp_es (short-circuit `and`).
ConsultsGate(r) == r = 0

\* Line 361 without its `break`: execute goes on to line 363.
OnStop_nobreak == "barrier"

\* Lines 360-361: where execute goes when the condition of line 360 is
\* true: `break` leaves the epoch loop, past dist.barrier().
OnStop == "cleanup"

\* A rank 0 that goes past dist.barrier() when cp_es returns False.
OnContinue_nobarrier == "sched"

\* Lines 360-363: where rank 0 goes when cp_es returns False: on to
\* dist.barrier().
OnContinue == "barrier"

\* Lines 360-361: rank 0 consults the gate and breaks when it returns True;
\* every other rank goes on to the barrier.
Gate(r) ==
    /\ pc[r] = "gate"
    /\ IF ConsultsGate(r)
       THEN /\ cp_es' = es_after(cp_es, Objective(r), epoch[r])
            /\ objs' = Append(objs, Objective(r))
            /\ IF es_stop(cp_es, Objective(r))
               THEN /\ stopEpoch' = epoch[r]
                    /\ pc' = [pc EXCEPT ![r] = OnStop]
               ELSE /\ stopEpoch' = stopEpoch
                    /\ pc' = [pc EXCEPT ![r] = OnContinue]
       ELSE /\ pc' = [pc EXCEPT ![r] = "barrier"]
            /\ UNCHANGED << cp_es, objs, stopEpoch >>
    /\ UNCHANGED << cfgVars, ternVars, otherVars, histVars,
                    epoch, batch_index, env_world_size, in_group, rflop,
                    lcrd, ridx, issued, red, meter_sum, meter_count, vloss,
                    sched_steps, barriers, barrier_calls, coll >>

\* Line 363: the rank enters dist.barrier() and blocks in it.
BarrierEnter(r) ==
    /\ pc[r] = "barrier"
    /\ CanArrive(r, "barrier")
    /\ coll' = Arrived(r, "barrier", 0)
    /\ barrier_calls' = [barrier_calls EXCEPT ![r] = @ + 1]
    /\ pc' = [pc EXCEPT ![r] = "barrier_wait"]
    /\ UNCHANGED << cfgVars, ternVars, otherVars, histVars,
                    epoch, batch_index, env_world_size, in_group, rflop,
                    lcrd, ridx, issued, red, meter_sum, meter_count, vloss,
                    sched_steps, barriers, cp_es, objs, stopEpoch >>

\* Line 369 left out: from the barrier straight to the next epoch.
AfterBarrier_nostep == "epoch_head"

\* Lines 363-369: where execute goes on when dist.barrier() has returned:
\* the end of the loop body with scheduler.step().
AfterBarrier == "sched"

\* Line 363: dist.barrier() returns once every rank has entered it.
BarrierExit(r) ==
    /\ pc[r] = "barrier_wait"
    /\ CanDepart(r)
    /\ coll' = Departed(r)
    /\ barriers' = [barriers EXCEPT ![r] = @ + 1]
    /\ pc' = [pc EXCEPT ![r] = AfterBarrier]
    /\ UNCHANGED << cfgVars, ternVars, otherVars, histVars,
                    epoch, batch_index, env_world_size, in_group, rflop,
                    lcrd, ridx, issued, red, meter_sum, meter_count, vloss,
                    sched_steps, barrier_calls, cp_es, objs, stopEpoch >>

\* Lines 365-369: the end of the loop body, scheduler.step().
SchedulerStep(r) ==
    /\ pc[r] = "sched"
    /\ sched_steps' = [sched_steps EXCEPT ![r] = @ + 1]
    /\ pc' = [pc EXCEPT ![r] = "epoch_head"]
    /\ UNCHANGED << cfgVars, ternVars, otherVars, histVars,
                    epoch, batch_index, env_world_size, in_group, rflop,
                    lcrd, ridx, issued, red, meter_sum, meter_count, vloss,
                    barriers, barrier_calls, coll, cp_es, objs, stopEpoch >>

\* Lines 370, 409-410: cleanup() destroys the process group; execute ends.
Cleanup(r) ==
    /\ pc[r] = "cleanup"
    /\ in_group' = [in_group EXCEPT ![r] = FALSE]
    /\ pc' = [pc EXCEPT ![r] = "done"]
    /\ UNCHANGED << cfgVars, ternVars, otherVars, histVars,
                    epoch, batch_index, env_world_size, rflop,
                    lcrd, ridx, issued, red, meter_sum, meter_count, vloss,
                    sched_steps, barriers, barrier_calls, coll, cp_es, objs, stopEpoch >>

\* Python raises out of execute: no statement of lines 55-370 catches an
\* exception, so one raised by the network or the criterion in a batch
\* (lines 202-220, 298-310) ends execute there.
Raise(r) ==
    /\ \/ pc[r] = "train" /\ batch_index[r] < n_train
       \/ pc[r] = "val" /\ batch_index[r] < n_val
    /\ pc' = [pc EXCEPT ![r] = "raised"]
    /\ UNCHANGED << cfgVars, ternVars, otherVars, histVars, epoch, batch_index, env_world_size,
                    in_group, rflop, lcrd, ridx, issued, red, meter_sum, meter_count,
                    vloss, sched_steps, barriers, barrier_calls, coll, cp_es, objs,
                    stopEpoch >>

\* A rank blocked in a collective (lines 363, 382-390) that a peer will
\* never enter, having ended execute: the collective never completes; the
\* backend may leave the rank blocked or raise in it.  (A peer that ended
\* after it entered the collective does not keep it from completing.)
CollectiveError(r) ==
    /\ pc[r] \in {"red_wait", "barrier_wait"}
    /\ \E q \in Ranks : pc[q] \in {"done", "raised"} /\ q \notin coll.arrived
    /\ pc' = [pc EXCEPT ![r] = "raised"]
    /\ UNCHANGED << cfgVars, ternVars, otherVars, histVars, epoch, batch_index, env_world_size,
                    in_group, rflop, lcrd, ridx, issued, red, meter_sum, meter_count,
                    vloss, sched_steps, barriers, barrier_calls, coll, cp_es, objs,
                    stopEpoch >>

Step(r) ==
    \/ Setup(r)
    \/ EpochHead(r)
    \/ TrainBatch(r)
    \/ TrainEnd(r)
    \/ ValForward(r)
    \/ ReduceEnter(r)
    \/ ReduceExit(r)
    \/ ValUpdate(r)
    \/ ValEnd(r)
    \/ Gate(r)
    \/ BarrierEnter(r)
    \/ BarrierExit(r)
    \/ SchedulerStep(r)
    \/ Cleanup(r)
    \/ Raise(r)
    \/ CollectiveError(r)

Next == \E r \in Ranks : Step(r)

Spec == Init /\ [][Next]_vars

\* The statements of execute on rank r other than line 360, without the
\* exceptions.
Run(r) ==
    \/ Setup(r)
    \/ EpochHead(r)
    \/ TrainBatch(r)
    \/ TrainEnd(r)
    \/ ValForward(r)
    \/ ReduceEnter(r)
    \/ ReduceExit(r)
    \/ ValUpdate(r)
    \/ ValEnd(r)
    \/ BarrierEnter(r)
    \/ BarrierExit(r)
    \/ SchedulerStep(r)
    \/ Cleanup(r)

\* Lines 452-466: mp.spawn runs execute in one process per rank; a process
\* that can execute its next statement eventually does, and one at line 360
\* (where Gate(r) is always possible: cp_es returns) does not stay there.
\* Nothing obliges an exception to be raised.
SpecLive ==
    /\ Init
    /\ [][Next]_vars
    /\ \A r \in Ranks : WF_vars(Run(r)) /\ []<>(pc[r] # "gate")

\* The views of one rank do not look at the other ranks.
DistIdle ==
    /\ pc = [r \in Ranks |-> "idle"]
    /\ epoch = [r \in Ranks |-> 0]
    /\ batch_index = [r \in Ranks |-> 0]
    /\ env_world_size = [r \in Ranks |-> 0]
    /\ in_group = [r \in Ranks |-> FALSE]
    /\ rflop = [r \in Ranks |-> 0]
    /\ lcrd = [r \in Ranks |-> NoBatch]
    /\ ridx = [r \in Ranks |-> 0]
    /\ issued = [r \in Ranks |-> << >>]
    /\ red = [r \in Ranks |-> ZeroVec]
    /\ meter_sum = [r \in Ranks |-> ZeroVec]
    /\ meter_count = [r \in Ranks |-> NoBatch]
    /\ vloss = [r \in Ranks |-> ZeroVec]
    /\ sched_steps = [r \in Ranks |-> 0]
    /\ barriers = [r \in Ranks |-> 0]
    /\ barrier_calls = [r \in Ranks |-> 0]
    /\ coll = NoColl
    /\ cp_es = [best |-> NoBest, counter |-> 0, saved |-> 0]
    /\ objs = << >>
    /\ stopEpoch = 0

\* ------------------------------------------------------------ SpecTernary
\* The weights one rank starts from (xavier_uniform_ or a loaded model).
InitT ==
    /\ disco_mode = FALSE
    /\ flop_regularizer = FALSE
    /\ patience = 1
    /\ n_train \in 1 .. MaxQuantBatches
    /\ n_val = 1
    /\ learning_rate = Rat(1, 10)
    /\ DistIdle
    /\ ternary \in BOOLEAN
    /\ t_pc = "t_head"
    /\ t_epoch = 0
    /\ t_batch = 0
    /\ weight_data \in { w \in [Modules -> UNION { Tensors(n) : n \in 0 .. WeightLen }] :
                            \A m \in Modules : Len(w[m]) = modules[m].numel }
    /\ weight_org = [m \in Modules |-> NoTensor]
    /\ weight_delta = [m \in Modules |-> NoScalar]
    /\ weight_alpha = [m \in Modules |-> NoScalar]
    /\ pre_tern = [m \in Modules |-> NoTensor]
    /\ clamped = [m \in Modules |-> NoTensor]
    /\ cycle = [m \in Modules |-> << >>]
    /\ da_log = [m \in Modules |-> << >>]
    /\ OtherIdle
    /\ HistIdle

\* The quantizer touches module m: `if ternary` and `if is_first_or_last(m)`.
Quantized(m) == ternary /\ m \in Eligible

Tag(m, t) == IF Quantized(m) THEN Append(cycle[m], t) ELSE cycle[m]

\* Lines 153-183: the next epoch starts with the per-epoch refresh of delta
\* and alpha (lines 178-183), or the loop is exhausted.
T_EpochHead ==
    /\ t_pc = "t_head"
    /\ IF HasNextEpoch(t_epoch)
       THEN /\ t_epoch' = t_epoch + 1
            /\ t_batch' = 0
            /\ weight_delta' =
                  [m \in Modules |-> IF Quantized(m)
                                      THEN get_delta(weight_data[m])
                                      ELSE weight_delta[m]]
            /\ weight_alpha' =
                  [m \in Modules |->
                      IF Quantized(m)
                      THEN get_alpha(weight_data[m],
                                     get_delta(weight_data[m]))
                      ELSE weight_alpha[m]]
            /\ da_log' =
                  [m \in Modules |->
                      IF Quantized(m)
                      THEN << << "assign", get_delta(weight_data[m]),
                                 get_alpha(weight_data[m],
                                           get_delta(weight_data[m])) >> >>
                      ELSE << >>]
            /\ t_pc' = "t_train"
       ELSE /\ t_pc' = "t_cleanup"
            /\ UNCHANGED << t_epoch, t_batch, weight_delta, weight_alpha,
                            da_log >>
    /\ UNCHANGED << cfgVars, distVars, otherVars, ternary, weight_data,
                    weight_org, pre_tern, clamped, cycle >>

\* A quantizer that derives delta and alpha afresh from the weights of
\* every batch.
TernarizeArgs_fresh(m) ==
    << get_delta(weight_data[m]),
       get_alpha(weight_data[m], get_delta(weight_data[m])) >>

\* Lines 193-194: the delta and alpha handed to to_ternary are the
\* attributes m.weight.delta and m.weight.alpha.
TernarizeArgs(m) == << weight_delta[m], weight_alpha[m] >>

\* Lines 187-194: save the shadow copy, then ternarize with the epoch's
\* delta and alpha.
T_Ternarize ==
    /\ t_pc = "t_train"
    /\ t_batch < n_train
    /\ pre_tern' = weight_data
    /\ weight_org' = [m \in Modules |-> IF Quantized(m) THEN weight_data[m]
                                         ELSE weight_org[m]]
    /\ weight_data' =
          [m \in Modules |-> IF Quantized(m)
                              THEN to_ternary(weight_data[m],
                                              TernarizeArgs(m)[1],
                                              TernarizeArgs(m)[2])
                              ELSE weight_data[m]]
    /\ cycle' = [m \in Modules |-> IF Quantized(m)
                                    THEN << "save", "ternarize" >> ELSE << >>]
    /\ da_log' = [m \in Modules |->
                     IF Quantized(m)
                     THEN Append(da_log[m], << "use", TernarizeArgs(m)[1],
                                               TernarizeArgs(m)[2] >>)
                     ELSE da_log[m]]
    /\ t_pc' = "t_forward"
    /\ UNCHANGED << cfgVars, distVars, otherVars, ternary, t_epoch, t_batch,
                    weight_delta, weight_alpha, clamped >>

\* The restore of lines 235-238 left out: straight on to line 240.
AfterBackward_norestore == "t_opt"

\* Line 233 done: where the batch goes on (the restore of lines 235-238).
AfterBackward == "t_restore"

\* Lines 196-233: forward, criterion, meters, backward.
T_Backward ==
    /\ t_pc = "t_forward"
    /\ cycle' = [m \in Modules |-> Tag(m, "backward")]
    /\ t_pc' = AfterBackward
    /\ UNCHANGED << cfgVars, distVars, otherVars, ternary, da_log, t_epoch, t_batch,
                    weight_data, weight_org, weight_delta, weight_alpha,
                    pre_tern, clamped >>

\* Line 238 copying nothing: the weight keeps its ternary values.
Restored_ternary(m) == weight_data[m]

\* Line 238: m.weight.data.copy_(m.weight.org).
Restored(m) == weight_org[m]

\* Lines 235-238: restore the full-precision weights.
T_Restore ==
    /\ t_pc = "t_restore"
    /\ weight_data' = [m \in Modules |-> IF Quantized(m) THEN Restored(m)
                                          ELSE weight_data[m]]
    /\ cycle' = [m \in Modules |-> Tag(m, "restore")]
    /\ t_pc' = "t_opt"
    /\ UNCHANGED << cfgVars, distVars, otherVars, ternary, da_log, t_epoch, t_batch,
                    weight_org, weight_delta, weight_alpha, pre_tern,
                    clamped >>

\* An optimizer that moves the weights whatever its rate.
Update_anyrate(g) == g

\* Lines 111-114, 240: SGD subtracts the rate times the (momentum and
\* weight-decay adjusted) gradient: g for a positive rate, an element of
\* (-MaxGrad) .. MaxGrad, and 0 for the rate 0.
Update(g) == IF learning_rate = Zero THEN 0 ELSE g

\* Lines 240-242: scaler.step(optimizer) moves every weight element by the
\* update the optimizer derives from its gradient (0 when the step is
\* skipped or the gradient vanishes).
T_OptimizerStep ==
    /\ t_pc = "t_opt"
    /\ \E u \in [Modules -> [1 .. WeightLen -> (-MaxGrad) .. MaxGrad]] :
          /\ \A m \in Modules : \A k \in 1 .. WeightLen :
                k > Len(weight_data[m]) => u[m][k] = 0
          /\ \A m \in Modules : \A k \in DOMAIN weight_data[m] :
                weight_data[m][k] - Update(u[m][k]) \in Elems
          /\ weight_data' =
                [m \in Modules |->
                    [k \in DOMAIN weight_data[m] |->
                        weight_data[m][k] - Update(u[m][k])]]
    /\ cycle' = [m \in Modules |-> Tag(m, "step")]
    /\ t_pc' = "t_clamp"
    /\ UNCHANGED << cfgVars, distVars, otherVars, ternary, da_log, t_epoch, t_batch,
                    weight_org, weight_delta, weight_alpha, pre_tern,
                    clamped >>

\* Line 247 without clamp_.
Clamped_none(w) == w

\* Line 247: m.weight.data.clamp_(-1, 1).
Clamped(w) == clamp(w)

\* Lines 244-257: clamp the updated weights in place and copy them to the
\* shadow; the batch ends.
T_Clamp ==
    /\ t_pc = "t_clamp"
    /\ weight_data' = [m \in Modules |-> IF Quantized(m)
                                          THEN Clamped(weight_data[m])
                                          ELSE weight_data[m]]
    /\ weight_org' = [m \in Modules |-> IF Quantized(m)
                                         THEN Clamped(weight_data[m])
                                         ELSE weight_org[m]]
    /\ clamped' = [m \in Modules |-> IF Quantized(m)
                                      THEN Clamped(weight_data[m])
                                      ELSE clamped[m]]
    /\ cycle' = [m \in Modules |-> Tag(m, "clamp")]
    /\ pre_tern' = [m \in Modules |-> NoTensor]
    /\ t_batch' = t_batch + 1
    /\ t_pc' = "t_train"
    /\ UNCHANGED << cfgVars, distVars, otherVars, ternary, da_log, t_epoch, weight_delta,
                    weight_alpha >>

\* Lines 259-295: the training pass is over; the validation pass starts by
\* saving the weights to org (line 294) and ternarizing them with
\* to_ternary(m.weight.data), which is passed no delta and no alpha
\* (line 295).
T_TrainEnd ==
    /\ t_pc = "t_train"
    /\ t_batch = n_train
    /\ weight_org' = [m \in Modules |-> IF Quantized(m) THEN weight_data[m]
                                         ELSE weight_org[m]]
    /\ weight_data' = [m \in Modules |->
                          IF Quantized(m)
                          THEN to_ternary_default(weight_data[m])
                          ELSE weight_data[m]]
    /\ cycle' = [m \in Modules |-> IF Quantized(m)
                                    THEN << "save", "ternarize" >> ELSE << >>]
    /\ t_pc' = "t_val"
    /\ UNCHANGED << cfgVars, distVars, otherVars, ternary, da_log, t_epoch, t_batch,
                    weight_delta, weight_alpha, pre_tern, clamped >>

\* Lines 297-358: the validation batches (no weight is written).
T_Validate ==
    /\ t_pc = "t_val"
    /\ t_pc' = "t_gate"
    /\ UNCHANGED << cfgVars, distVars, otherVars, ternary, da_log, t_epoch, t_batch,
                    weight_data, weight_org, weight_delta, weight_alpha,
                    pre_tern, clamped, cycle >>

\* Lines 360-361: rank 0 breaks when cp_es returns True (its decision rests
\* on the losses, which this view does not hold: either outcome).
T_Gate ==
    /\ t_pc = "t_gate"
    /\ \E stop \in BOOLEAN :
          t_pc' = IF ConsultsGate(0) /\ stop THEN "t_cleanup"
                  ELSE "t_barrier"
    /\ UNCHANGED << cfgVars, distVars, otherVars, ternary, da_log, t_epoch, t_batch,
                    weight_data, weight_org, weight_delta, weight_alpha,
                    pre_tern, clamped, cycle >>

\* Line 363: dist.barrier() returns.
T_Barrier ==
    /\ t_pc = "t_barrier"
    /\ t_pc' = "t_epoch_end"
    /\ UNCHANGED << cfgVars, distVars, otherVars, ternary, da_log, t_epoch, t_batch,
                    weight_data, weight_org, weight_delta, weight_alpha,
                    pre_tern, clamped, cycle >>

\* Lines 365-369: m.weight.org.copy_(m.weight.data), then scheduler.step().
T_EpochEnd ==
    /\ t_pc = "t_epoch_end"
    /\ weight_org' = [m \in Modules |-> IF Quantized(m) THEN weight_data[m]
                                         ELSE weight_org[m]]
    /\ t_pc' = "t_head"
    /\ UNCHANGED << cfgVars, distVars, otherVars, ternary, da_log, t_epoch, t_batch,
                    weight_data, weight_delta, weight_alpha, pre_tern,
                    clamped, cycle >>

\* Lines 370, 409-410.
T_Cleanup ==
    /\ t_pc = "t_cleanup"
    /\ t_pc' = "t_done"
    /\ UNCHANGED << cfgVars, distVars, otherVars, ternary, da_log, t_epoch, t_batch,
                    weight_data, weight_org, weight_delta, weight_alpha,
                    pre_tern, clamped, cycle >>

\* SpecTernary does not look at the loss history.
NextT ==
    \/ T_EpochHead /\ UNCHANGED histVars
    \/ T_Ternarize /\ UNCHANGED histVars
    \/ T_Backward /\ UNCHANGED histVars
    \/ T_Restore /\ UNCHANGED histVars
    \/ T_OptimizerStep /\ UNCHANGED histVars
    \/ T_Clamp /\ UNCHANGED histVars
    \/ T_TrainEnd /\ UNCHANGED histVars
    \/ T_Validate /\ UNCHANGED histVars
    \/ T_Gate /\ UNCHANGED histVars
    \/ T_Barrier /\ UNCHANGED histVars
    \/ T_EpochEnd /\ UNCHANGED histVars
    \/ T_Cleanup /\ UNCHANGED histVars

SpecTernary == InitT /\ [][NextT]_vars

\* -------------------------------------------------------------- SpecDrift
\* One rank's weights and loss history in a run with learning rate 0 whose
\* batches are the same in every epoch.  The statements that touch the
\* weights are those of SpecTernary; the history is added to them.
InitD ==
    /\ disco_mode = FALSE
    /\ flop_regularizer = FALSE
    /\ patience = 1
    /\ n_train \in 1 .. MaxQuantBatches
    /\ n_val = 1
    /\ learning_rate = Zero
    /\ DistIdle
    /\ ternary \in BOOLEAN
    /\ t_pc = "t_head"
    /\ t_epoch = 0
    /\ t_batch = 0
    /\ weight_data \in { w \in [Modules -> UNION { Tensors(n) : n \in 0 .. WeightLen }] :
                            \A m \in Modules : Len(w[m]) = modules[m].numel }
    /\ weight_org = [m \in Modules |-> NoTensor]
    /\ weight_delta = [m \in Modules |-> NoScalar]
    /\ weight_alpha = [m \in Modules |-> NoScalar]
    /\ pre_tern = [m \in Modules |-> NoTensor]
    /\ clamped = [m \in Modules |-> NoTensor]
    /\ cycle = [m \in Modules |-> << >>]
    /\ da_log = [m \in Modules |-> << >>]
    /\ OtherIdle
    /\ w_init = weight_data
    /\ fwd_pass = << >>
    /\ train_loss = << >>
    /\ val_loss = << >>

\* Lines 153-183, with the meter resets of lines 165-168.
D_EpochHead ==
    /\ T_EpochHead
    /\ fwd_pass' = << >>
    /\ UNCHANGED << w_init, train_loss, val_loss >>

\* Lines 187-194.
D_Ternarize == T_Ternarize /\ UNCHANGED histVars

\* Lines 196-233: the forward pass and criterion run with the weights as
\* they are now; loc, cls, reg are updated with the losses (lines 223-225).
D_Backward ==
    /\ T_Backward
    /\ fwd_pass' = Append(fwd_pass, weight_data)
    /\ UNCHANGED << w_init, train_loss, val_loss >>

\* Lines 235-238.
D_Restore == T_Restore /\ UNCHANGED histVars

\* Lines 240-242.
D_OptimizerStep == T_OptimizerStep /\ UNCHANGED histVars

\* Lines 244-257.
D_Clamp == T_Clamp /\ UNCHANGED histVars

\* Lines 259-295: tloss, the averages of the meters over the pass's
\* batches, becomes the epoch's column of train_loss (lines 262-266); the
\* meters are reset (lines 276-279).
D_TrainEnd ==
    /\ T_TrainEnd
    /\ train_loss' = Append(train_loss, fwd_pass)
    /\ fwd_pass' = << >>
    /\ UNCHANGED << w_init, val_loss >>

\* Lines 297-358: every validation batch runs with the weights as they are
\* now; vloss becomes the epoch's column of val_loss (lines 333-337).
D_Validate ==
    /\ T_Validate
    /\ val_loss' = Append(val_loss, weight_data)
    /\ UNCHANGED << w_init, fwd_pass, train_loss >>

\* Lines 360-361.
D_Gate == T_Gate /\ UNCHANGED histVars

\* Line 363.
D_Barrier == T_Barrier /\ UNCHANGED histVars

\* Lines 365-369.
D_EpochEnd == T_EpochEnd /\ UNCHANGED histVars

\* Line 370.
D_Cleanup == T_Cleanup /\ UNCHANGED histVars

NextD ==
    \/ D_EpochHead
    \/ D_Ternarize
    \/ D_Backward
    \/ D_Restore
    \/ D_OptimizerStep
    \/ D_Clamp
    \/ D_TrainEnd
    \/ D_Validate
    \/ D_Gate
    \/ D_Barrier
    \/ D_EpochEnd
    \/ D_Cleanup

SpecDrift == InitD /\ [][NextD]_vars

\* -------------------------------------------------------------- SpecLocal
\* What is local to one rank through the epoch loop of a run of LongRun
\* epochs: its optimizer and learning-rate scheduler, its metric meters and
\* the rows it finalizes from them.
InitL ==
    /\ disco_mode = FALSE
    /\ flop_regularizer = FALSE
    /\ patience = 1
    /\ n_train \in 1 .. MaxLocalBatches
    /\ n_val \in 1 .. MaxLocalBatches
    /\ learning_rate \in LearningRates
    /\ DistIdle
    /\ TernIdle
    /\ l_pc = "l_head"
    /\ l_epoch = 0
    /\ l_batch = 0
    /\ lr = learning_rate
    /\ last_epoch = 0
    /\ boxMetrics = NoMetrics
    /\ eventMetrics = NoMetrics
    /\ boxMetricsVal = NoMetrics
    /\ eventMetricsVal = NoMetrics
    /\ box_sum = MetersReset(4)
    /\ box_count = MetersReset(4)
    /\ event_sum = MetersReset(2)
    /\ event_count = MetersReset(2)
    /\ tboxmetrics = << >>
    /\ tmetrics = << >>
    /\ vboxmetrics = << >>
    /\ vmetrics = << >>
    /\ val_produced = << >>
    /\ LayerIdle
    /\ HistIdle
    /\ RecIdle

\* Lines 153-175 in a run of LongRun epochs: the next epoch starts with the
\* meters reset, or the loop is exhausted.
L_EpochHead ==
    /\ l_pc = "l_head"
    /\ IF l_epoch < LongRun
       THEN /\ l_epoch' = l_epoch + 1
            /\ box_sum' = MetersReset(4)
            /\ box_count' = MetersReset(4)
            /\ event_sum' = MetersReset(2)
            /\ event_count' = MetersReset(2)
            /\ l_pc' = "l_train"
       ELSE /\ l_pc' = "l_cleanup"
            /\ UNCHANGED << l_epoch, box_sum, box_count, event_sum,
                            event_count >>
    /\ l_batch' = 0
    /\ UNCHANGED << cfgVars, distVars, ternVars, layerVars, w_init, fwd_pass, lr, last_epoch,
                    boxMetrics, eventMetrics, boxMetricsVal, eventMetricsVal,
                    tboxmetrics, tmetrics, vboxmetrics, vmetrics,
                    val_produced >>

\* Lines 185-257: one training batch: criterion returns boxMetrics and
\* eventMetrics (lines 216, 220), the meters are updated with them (lines
\* 226-231); scaler.step(optimizer) at line 240 uses the optimizer's
\* current rate.
L_TrainBatch ==
    /\ l_pc = "l_train"
    /\ l_batch < n_train
    /\ \E t \in MetricPairs :
          /\ boxMetrics' = t.box
          /\ eventMetrics' = t.event
    /\ box_sum' = MetersUpdate(box_sum, BoxEntries(boxMetrics'))
    /\ box_count' = MetersCount(box_count)
    /\ event_sum' = MetersUpdate(event_sum, EventEntries(eventMetrics'))
    /\ event_count' = MetersCount(event_count)
    /\ l_batch' = l_batch + 1
    /\ UNCHANGED << cfgVars, distVars, ternVars, layerVars, w_init, fwd_pass, l_pc, l_epoch, lr,
                    last_epoch, boxMetricsVal, eventMetricsVal, tboxmetrics,
                    tmetrics, vboxmetrics, vmetrics, val_produced >>

\* Lines 259-295: the training rows are finalized from the meters' averages
\* (lines 264-265) and the meters are reset for the validation pass (lines
\* 276-285).
L_TrainEnd ==
    /\ l_pc = "l_train"
    /\ l_batch = n_train
    /\ tboxmetrics' = MetersAvg(box_sum, box_count)
    /\ tmetrics' = MetersAvg(event_sum, event_count)
    /\ box_sum' = MetersReset(4)
    /\ box_count' = MetersReset(4)
    /\ event_sum' = MetersReset(2)
    /\ event_count' = MetersReset(2)
    /\ val_produced' = << >>
    /\ l_batch' = 0
    /\ l_pc' = "l_val"
    /\ UNCHANGED << cfgVars, distVars, ternVars, layerVars, w_init, fwd_pass, l_epoch, lr,
                    last_epoch, boxMetrics, eventMetrics, boxMetricsVal,
                    eventMetricsVal, vboxmetrics, vmetrics >>

\* The box values the validation batch feeds the box meters: lines 316-319
\* read boxMetrics, the variable the training pass assigned.
ValBoxSource == boxMetrics

\* Lines 297-329: one validation batch: criterion returns boxMetricsVal and
\* eventMetricsVal (lines 306, 310); the box meters are updated at lines
\* 316-319, the event meters from eventMetricsVal at lines 320-321.
L_ValBatch ==
    /\ l_pc = "l_val"
    /\ l_batch < n_val
    /\ \E t \in MetricPairs :
          /\ boxMetricsVal' = t.box
          /\ eventMetricsVal' = t.event
          /\ val_produced' = Append(val_produced, t)
    /\ box_sum' = MetersUpdate(box_sum, BoxEntries(ValBoxSource))
    /\ box_count' = MetersCount(box_count)
    /\ event_sum' = MetersUpdate(event_sum, EventEntries(eventMetricsVal'))
    /\ event_count' = MetersCount(event_count)
    /\ l_batch' = l_batch + 1
    /\ UNCHANGED << cfgVars, distVars, ternVars, layerVars, w_init, fwd_pass, l_pc, l_epoch, lr,
                    last_epoch, boxMetrics, eventMetrics, tboxmetrics,
                    tmetrics, vboxmetrics, vmetrics >>

\* Lines 331-358: the validation rows are finalized from the meters'
\* averages (lines 335-336).
L_ValEnd ==
    /\ l_pc = "l_val"
    /\ l_batch = n_val
    /\ vboxmetrics' = MetersAvg(box_sum, box_count)
    /\ vmetrics' = MetersAvg(event_sum, event_count)
    /\ l_pc' = "l_gate"
    /\ UNCHANGED << cfgVars, distVars, ternVars, layerVars, w_init, fwd_pass, l_epoch, l_batch,
                    lr, last_epoch, boxMetrics, eventMetrics, boxMetricsVal,
                    eventMetricsVal, box_sum, box_count, event_sum,
                    event_count, tboxmetrics, tmetrics, val_produced >>

\* Lines 360-361: on rank 0 the gate may end the loop (its decision rests
\* on the losses, which this view does not hold: either outcome).
L_Gate ==
    /\ l_pc = "l_gate"
    /\ \E stop \in BOOLEAN :
          l_pc' = IF ConsultsGate(0) /\ stop THEN "l_cleanup"
                  ELSE "l_barrier"
    /\ UNCHANGED << cfgVars, distVars, ternVars, layerVars, w_init, fwd_pass, meterVars,
                    l_epoch, l_batch, lr, last_epoch >>

\* Line 363: dist.barrier() returns.
L_Barrier ==
    /\ l_pc = "l_barrier"
    /\ l_pc' = "l_sched"
    /\ UNCHANGED << cfgVars, distVars, ternVars, layerVars, w_init, fwd_pass, meterVars,
                    l_epoch, l_batch, lr, last_epoch >>

\* Line 369: scheduler.step() counts the call and sets the optimizer's rate.
L_SchedulerStep ==
    /\ l_pc = "l_sched"
    /\ last_epoch' = last_epoch + 1
    /\ lr' = MultiStepLR(lr, last_epoch + 1)
    /\ l_pc' = "l_head"
    /\ UNCHANGED << cfgVars, distVars, ternVars, layerVars, w_init, fwd_pass, meterVars,
                    l_epoch, l_batch >>

\* Line 370.
L_Cleanup ==
    /\ l_pc = "l_cleanup"
    /\ l_pc' = "l_done"
    /\ UNCHANGED << cfgVars, distVars, ternVars, layerVars, w_init, fwd_pass, meterVars,
                    l_epoch, l_batch, lr, last_epoch >>

\* SpecLocal does not look at the loss meters or the history matrices.
NextL ==
    \/ L_EpochHead /\ UNCHANGED bookVars
    \/ L_TrainBatch /\ UNCHANGED bookVars
    \/ L_TrainEnd /\ UNCHANGED bookVars
    \/ L_ValBatch /\ UNCHANGED bookVars
    \/ L_ValEnd /\ UNCHANGED bookVars
    \/ L_Gate /\ UNCHANGED bookVars
    \/ L_Barrier /\ UNCHANGED bookVars
    \/ L_SchedulerStep /\ UNCHANGED bookVars
    \/ L_Cleanup /\ UNCHANGED bookVars

SpecLocal == InitL /\ [][NextL]_vars

\* ------------------------------------------------------------ SpecHistory
\* One rank's meters and its six history matrices over max_epochs epochs.
\* A matrix is the sequence of its columns; a column is the sequence of its
\* rows.  The statements that touch the metric meters are those of
\* SpecLocal; the loss meters and the matrices are added to them.

\* A history that keeps the latest column only.
Cat_latest(h, col) == << col >>

\* Lines 266-268, 337-339: torch.cat((h, col), 1).
Cat(h, col) == Append(h, col)

\* Lines 218, 223-225 and 307, 312-314: loc, cls, reg are updated with l,
\* c, r; disco is updated with d in decorrelation mode only.
LossUpdate(sums, lt) ==
    [k \in DOMAIN sums |->
        IF k = DISCO /\ ~disco_mode THEN sums[k] ELSE sums[k] + lt[k]]

LossCount(counts) ==
    [k \in DOMAIN counts |->
        IF k = DISCO /\ ~disco_mode THEN counts[k] ELSE counts[k] + 1]

\* Lines 262-263, 333-334: [loc.avg, cls.avg, reg.avg], with disco.avg in
\* decorrelation mode.
LossColumn ==
    LET avg == MetersAvg(loss_sum, loss_count)
    IN  IF disco_mode THEN << avg[LOC], avg[CLS], avg[REG], avg[DISCO] >>
        ELSE << avg[LOC], avg[CLS], avg[REG] >>

\* Lines 216, 220, 306, 310: criterion returns the losses together with the
\* metrics; the batches are of 1 + MaxMetric kinds, told apart by their
\* event metrics e, each with its own loss vector.
CriterionLoss(e) ==
    CHOOSE lt \in LossTuples : lt[LOC] = 1 + (e[1] % MaxLoss)

InitH ==
    /\ disco_mode \in BOOLEAN
    /\ flop_regularizer = FALSE
    /\ patience = 1
    /\ n_train \in 1 .. MaxLocalBatches
    /\ n_val \in 1 .. MaxLocalBatches
    /\ learning_rate = Rat(1, 10)
    /\ DistIdle
    /\ TernIdle
    /\ l_pc = "l_head"
    /\ l_epoch = 0
    /\ l_batch = 0
    /\ lr = learning_rate
    /\ last_epoch = 0
    /\ boxMetrics = NoMetrics
    /\ eventMetrics = NoMetrics
    /\ boxMetricsVal = NoMetrics
    /\ eventMetricsVal = NoMetrics
    /\ box_sum = MetersReset(4)
    /\ box_count = MetersReset(4)
    /\ event_sum = MetersReset(2)
    /\ event_count = MetersReset(2)
    /\ tboxmetrics = << >>
    /\ tmetrics = << >>
    /\ vboxmetrics = << >>
    /\ vmetrics = << >>
    /\ val_produced = << >>
    /\ LayerIdle
    /\ w_init = << >>
    /\ fwd_pass = << >>
    /\ loss_sum = MetersReset(4)
    /\ loss_count = MetersReset(4)
    /\ train_loss = << >>
    /\ val_loss = << >>
    /\ train_metrics = << >>
    /\ val_metrics = << >>
    /\ train_boxmetrics = << >>
    /\ val_boxmetrics = << >>

\* Lines 153-175: the next epoch of range(1, max_epochs + 1) starts with
\* all meters reset, or the loop is exhausted.
H_EpochHead ==
    /\ l_pc = "l_head"
    /\ IF HasNextEpoch(l_epoch)
       THEN /\ L_EpochHead
            /\ loss_sum' = MetersReset(4)
            /\ loss_count' = MetersReset(4)
       ELSE /\ l_pc' = "l_cleanup"
            /\ l_batch' = 0
            /\ UNCHANGED << cfgVars, distVars, ternVars, layerVars, w_init,
                            fwd_pass, l_epoch, lr, last_epoch, meterVars,
                            loss_sum, loss_count >>
    /\ UNCHANGED << train_loss, val_loss, train_metrics, val_metrics,
                    train_boxmetrics, val_boxmetrics >>

\* Lines 185-257: one training batch; criterion returns the rank's own l,
\* c, r (and d), with which the loss meters are updated.
H_TrainBatch ==
    /\ L_TrainBatch
    /\ loss_sum' = LossUpdate(loss_sum, CriterionLoss(eventMetrics'))
    /\ loss_count' = LossCount(loss_count)
    /\ UNCHANGED << train_loss, val_loss, train_metrics, val_metrics,
                    train_boxmetrics, val_boxmetrics >>

\* Lines 259-295: tloss, tmetrics and tboxmetrics become the epoch's
\* columns of the training histories (lines 262-268); the meters are reset
\* (lines 276-285).
H_TrainEnd ==
    /\ L_TrainEnd
    /\ train_loss' = Cat(train_loss, LossColumn)
    /\ train_metrics' = Cat(train_metrics, tmetrics')
    /\ train_boxmetrics' = Cat(train_boxmetrics, tboxmetrics')
    /\ loss_sum' = MetersReset(4)
    /\ loss_count' = MetersReset(4)
    /\ UNCHANGED << val_loss, val_metrics, val_boxmetrics >>

\* Lines 297-329: one validation batch; the loss meters are updated with
\* the reduced l, c, r (and d), here those of a batch all ranks share.
H_ValBatch ==
    /\ L_ValBatch
    /\ loss_sum' = LossUpdate(loss_sum, CriterionLoss(eventMetricsVal'))
    /\ loss_count' = LossCount(loss_count)
    /\ UNCHANGED << train_loss, val_loss, train_metrics, val_metrics,
                    train_boxmetrics, val_boxmetrics >>

\* Lines 331-358: vloss, vmetrics and vboxmetrics become the epoch's
\* columns of the validation histories (lines 333-339).
H_ValEnd ==
    /\ L_ValEnd
    /\ val_loss' = Cat(val_loss, LossColumn)
    /\ val_metrics' = Cat(val_metrics, vmetrics')
    /\ val_boxmetrics' = Cat(val_boxmetrics, vboxmetrics')
    /\ UNCHANGED << loss_sum, loss_count, train_loss, train_metrics,
                    train_boxmetrics >>

\* Lines 360-361.
H_Gate == L_Gate /\ UNCHANGED bookVars

\* Line 363.
H_Barrier == L_Barrier /\ UNCHANGED bookVars

\* Line 369.
H_SchedulerStep == L_SchedulerStep /\ UNCHANGED bookVars

\* Line 370.
H_Cleanup == L_Cleanup /\ UNCHANGED bookVars

NextH ==
    \/ H_EpochHead
    \/ H_TrainBatch
    \/ H_TrainEnd
    \/ H_ValBatch
    \/ H_ValEnd
    \/ H_Gate
    \/ H_Barrier
    \/ H_SchedulerStep
    \/ H_Cleanup

SpecHistory == InitH /\ [][NextH]_vars

\* -------------------------------------------------------------- SpecLayer
\* is_first_or_last as a function: a layer, then the value returned for it.
InitLayer ==
    /\ disco_mode = FALSE
    /\ flop_regularizer = FALSE
    /\ patience = 1
    /\ n_train = 1
    /\ n_val = 1
    /\ learning_rate = Rat(1, 10)
    /\ DistIdle
    /\ TernIdle
    /\ LocalIdle
    /\ layer \in Layers
    /\ returned = << >>
    /\ HistIdle
    /\ RecIdle

\* Lines 179, 189, 236, 245, 293, 367: `if is_first_or_last(m)`.
CallIsFirstOrLast ==
    /\ returned = << >>
    /\ returned' = << is_first_or_last(layer) >>
    /\ UNCHANGED << cfgVars, distVars, ternVars, localVars, histVars, recVars,
                    layer >>

NextLayer == CallIsFirstOrLast

SpecLayer == InitLayer /\ [][NextLayer]_vars

\* ------------------------------------------------------------------ claims
\* C1: all ranks observe the same halt decision: once the gate has signalled
\* stop on rank 0 in epoch e, no rank starts epoch e + 1, and when nothing
\* can happen any more every rank has left the epoch loop and ended execute
\* (none is left blocked in a collective).
C1_AllRanksObserveHalt ==
    stopEpoch > 0 =>
        /\ \A r \in Ranks : epoch[r] <= stopEpoch
        /\ (~ENABLED Next) => \A r \in Ranks : pc[r] = "done"

\* C2: on early stopping no rank proceeds to cleanup before every rank has
\* passed the epoch-end barrier of the stopping epoch.
C2_TeardownAfterBarrier ==
    \A r \in Ranks :
        (stopEpoch > 0 /\ pc[r] \in {"cleanup", "done"}) =>
            \A q \in Ranks : barriers[q] >= stopEpoch

\* C3: on every exit path of execute after setup (completion, early
\* stopping, an exception in the epoch loop) the rank has destroyed its
\* process group when execute has ended.
C3_CleanupOnEveryExit ==
    \A r \in Ranks : pc[r] \in {"done", "raised"} => ~in_group[r]

\* Every rank is about to return from reduce_tensor for the same batch.
AllAtReturn ==
    \A q \in Ranks : /\ pc[q] = "val_update"
                     /\ epoch[q] = epoch[0]
                     /\ batch_index[q] = batch_index[0]

\* The arithmetic mean over the ranks of component i of their inputs.
MeanInput(i) == Rat(SumOver([q \in Ranks |-> lcrd[q][i]], Ranks), world_size)

\* C8: exact averaging law: when all ranks call reduce_tensor for the same
\* validation batch, every scalar it returns (loc, cls, reg and, in disco
\* mode, disco) is the same on every rank and is the sum of the ranks'
\* inputs divided by world_size.
C8_ExactAveraging ==
    AllAtReturn =>
        \A r \in Ranks : \A i \in Components :
            /\ red[r][i] = red[0][i]
            /\ red[r][i] = MeanInput(i)
            /\ red[r][i].num * world_size
                  = red[r][i].den * SumOver([q \in Ranks |-> lcrd[q][i]], Ranks)

\* C8 witness: reduce_tensor returns on all ranks a mean that is none of
\* the inputs (ranks with different loc inputs).
C8_Witness ==
    /\ AllAtReturn
    /\ \E q \in Ranks : lcrd[q][LOC] # lcrd[0][LOC]
    /\ \A r \in Ranks : red[r][LOC] = MeanInput(LOC)
    /\ disco_mode

\* The first k objectives handed to the gate are one value.
ConstantPrefix(k) == \A i \in 1 .. k : objs[i] = objs[1]

\* C9: with the same objective in patience + 1 consecutive epochs from
\* epoch 1 on, the gate signals stop exactly at the end of epoch
\* patience + 1 (not earlier) and rank 0 runs no further epoch.
C9_StopAtPatiencePlusOne ==
    \A k \in 1 .. Len(objs) :
        ConstantPrefix(k) =>
            IF k >= patience + 1
            THEN /\ stopEpoch = patience + 1
                 /\ Len(objs) = patience + 1
                 /\ epoch[0] = patience + 1
                 /\ pc[0] \in {"cleanup", "done"}
            ELSE stopEpoch = 0 \/ stopEpoch > k

\* C9 witness: patience = 2, three equal objectives, rank 0 stopped after
\* the third epoch.
C9_Witness ==
    /\ patience = 2
    /\ Len(objs) = 3
    /\ ConstantPrefix(3)
    /\ stopEpoch = 3
    /\ pc[0] = "done"

StrictlyDecreasing(s) == \A i \in 1 .. (Len(s) - 1) : RLess(s[i + 1], s[i])

\* C10: with strictly decreasing objectives the gate never signals stop:
\* the patience counter is 0 after every epoch and rank 0's epoch loop runs
\* all max_epochs epochs before it ends.
C10_DecreasingNeverStops ==
    StrictlyDecreasing(objs) =>
        /\ cp_es.counter = 0
        /\ stopEpoch = 0
        /\ pc[0] \in {"cleanup", "done"} =>
              /\ Len(objs) = max_epochs
              /\ epoch[0] = max_epochs

\* C10 witness: max_epochs strictly decreasing objectives, rank 0 has run
\* them all and ended.
C10_Witness ==
    /\ Len(objs) = max_epochs
    /\ max_epochs >= 3
    /\ StrictlyDecreasing(objs)
    /\ pc[0] = "done"

\* C4: in ternary mode the full-precision weights stay authoritative: the
\* weight the first optimizer step of epoch e + 1 updates is the clamped
\* full-precision weight the last optimizer step of epoch e left (the
\* validation-time ternarization of epoch e does not persist).
C4_FullPrecisionAuthoritative ==
    (ternary /\ t_pc = "t_opt" /\ t_batch = 0 /\ t_epoch >= 2) =>
        \A m \in Eligible : weight_data[m] = clamped[m]

\* C5: shadow/restore round trip: in ternary mode, for every eligible layer
\* and training batch, the weight present when the optimizer step begins is
\* the weight that was there right before the batch's ternarization.
C5_ShadowRestoreRoundTrip ==
    (ternary /\ t_pc = "t_opt") =>
        \A m \in Eligible : weight_data[m] = pre_tern[m]

\* C5 witness: the optimizer step is about to begin in a batch whose
\* ternarization changed the weight, and the weight is back.
C5_Witness ==
    /\ ternary
    /\ t_pc = "t_opt"
    /\ \E m \in Eligible :
          /\ to_ternary(pre_tern[m], weight_delta[m], weight_alpha[m])
                # pre_tern[m]
          /\ weight_data[m] = pre_tern[m]

\* C6: in ternary mode every training batch does exactly one ternarization
\* and one restoration per eligible layer, in the order save, ternarize,
\* forward/backward, restore, optimizer step; the optimizer step is not
\* reached while the layer holds the batch's ternary values.
C6_OneCyclePerBatch ==
    ternary =>
        \A m \in Eligible :
            /\ t_pc = "t_opt" =>
                  /\ cycle[m] = << "save", "ternarize", "backward", "restore" >>
                  /\ weight_data[m] = weight_org[m]
            /\ t_pc = "t_clamp" =>
                  cycle[m] = << "save", "ternarize", "backward", "restore",
                                "step" >>
            /\ (t_pc = "t_train" /\ t_batch > 0) =>
                  cycle[m] = << "save", "ternarize", "backward", "restore",
                                "step", "clamp" >>

\* C6 witness: the second batch of an epoch has completed its cycle.
C6_Witness ==
    /\ ternary
    /\ t_pc = "t_train"
    /\ t_batch = 2
    /\ \E m \in Eligible : Len(cycle[m]) = 6

\* C7: clamp invariant: in ternary mode, after every optimizer step of the
\* training pass (line 247 done), every element of every eligible layer's
\* weight and of its shadow copy lies within [-1, 1].
C7_ClampInvariant ==
    (ternary /\ t_pc = "t_train" /\ t_batch > 0) =>
        \A m \in Eligible : InRange(weight_data[m]) /\ InRange(weight_org[m])

\* C7 witness: a batch has ended with an eligible weight element the clamp
\* holds at the bound, and the shadow copy records it.
C7_Witness ==
    /\ ternary
    /\ t_pc = "t_train"
    /\ t_batch > 0
    /\ \E m \in Eligible :
          /\ \E k \in DOMAIN weight_data[m] : weight_data[m][k] = -One
          /\ \E k \in DOMAIN weight_data[m] : weight_data[m][k] = One
          /\ weight_org[m] = weight_data[m]

\* The number of milestones up to and including epoch number e.
MilestonesUpTo(e) == Cardinality({ m \in milestones : m <= e })

\* x multiplied by gamma k times.
Scaled(x, k) == Rat(x.num * (gamma.num ^ k), x.den * (gamma.den ^ k))

\* C11 as stated: the learning rate in effect during the training pass of
\* epoch e (numbered from 1) is the initial rate multiplied by the decay
\* factor once for every milestone m <= e.
C11_RateCountsMilestonesUpToEpoch ==
    l_pc = "l_train" =>
        lr = Scaled(learning_rate, MilestonesUpTo(l_epoch))

\* C11 amended: the learning rate in effect during the training pass of
\* epoch e is the initial rate multiplied by the decay factor once for
\* every milestone m < e (the schedule is stepped at the end of an epoch,
\* so its e - 1 steps have been taken when epoch e trains).
C11_RateCountsMilestonesBeforeEpoch ==
    /\ l_pc \in {"l_train", "l_val", "l_gate", "l_barrier", "l_sched"} =>
          /\ last_epoch = l_epoch - 1
          /\ lr = Scaled(learning_rate, MilestonesUpTo(l_epoch - 1))
    /\ (l_pc = "l_train" /\ learning_rate = Rat(1, 10)) =>
          /\ l_epoch \in 1 .. 20 => lr = Rat(1, 10)
          /\ l_epoch \in 21 .. 30 => lr = Rat(1, 20)
          /\ l_epoch \in 31 .. 50 => lr = Rat(1, 40)

\* C11 witness: epoch 31 trains at a quarter of the initial rate 0.1.
C11_Witness ==
    /\ l_pc = "l_train"
    /\ l_batch = n_train
    /\ l_epoch = 31
    /\ learning_rate = Rat(1, 10)
    /\ lr = Rat(1, 40)

\* C12: whenever the run ends by early stopping, a persisted checkpoint
\* exists and it holds the model state of the epoch whose gate objective is
\* the minimum of all objectives the gate has seen in the run.
C12_CheckpointAtBestEpoch ==
    stopEpoch > 0 =>
        /\ cp_es.saved \in 1 .. Len(objs)
        /\ cp_es.saved <= stopEpoch
        /\ cp_es.best = objs[cp_es.saved]
        /\ \A i \in 1 .. Len(objs) : ~RLess(objs[i], objs[cp_es.saved])

\* C12 witness: the run stopped in epoch 3 and the checkpoint is the one
\* of epoch 2, whose objective is below that of epoch 1.
C12_Witness ==
    /\ stopEpoch = 3
    /\ pc[0] = "done"
    /\ cp_es.saved = 2
    /\ RLess(objs[2], objs[1])

\* Rank r is inside a training pass or a validation pass.
InPass(r) == pc[r] \in {"train", "val", "red", "red_wait", "val_update"}

UsesEpochDeltaAlpha(m) ==
    weight_data[m] = to_ternary(clamped[m], weight_delta[m], weight_alpha[m])

\* The validation pass ternarized layer m and saved no shadow copy of it.
SavesNoShadow(m) == cycle[m] = << "ternarize" >>

\* C15: in ternary mode the validation-pass ternarization of each eligible
\* layer uses the delta and alpha the per-epoch refresh computed for the
\* layer at the start of the epoch (not freshly computed or default ones),
\* and it saves no shadow copy of the weight.
C15_ValidationUsesEpochDeltaAlpha ==
    (ternary /\ t_pc = "t_val") =>
        \A m \in Eligible : UsesEpochDeltaAlpha(m) /\ SavesNoShadow(m)

\* A 2-D convolution with the given kernel and channel counts.
Conv2d(k, i, o) ==
    [kind |-> "Conv2d", kernel_size |-> k, in_channels |-> i,
     out_channels |-> o, numel |-> 0]

\* C16: is_first_or_last(layer) is true exactly when the layer is a 2-D
\* convolution with kernel size (3, 3), more than 3 input channels and
\* more than 4 output channels: a 3x3 convolution from 8 to 16 channels is
\* eligible; a 1x1 convolution, a 3x3 convolution with 3 input channels and
\* a 3x3 convolution with 4 output channels are not.
C16_EligibleLayerPredicate ==
    returned # << >> =>
        LET eligible == returned[1]
        IN  /\ eligible <=> /\ layer.kind = "Conv2d"
                            /\ layer.kernel_size = << 3, 3 >>
                            /\ layer.in_channels > 3
                            /\ layer.out_channels > 4
            /\ layer = Conv2d(<< 3, 3 >>, 8, 16) => eligible
            /\ (layer.kind = "Conv2d" /\ layer.kernel_size = << 1, 1 >>)
                  => ~eligible
            /\ (layer.kind = "Conv2d" /\ layer.in_channels = 3) => ~eligible
            /\ (layer.kind = "Conv2d" /\ layer.out_channels = 4) => ~eligible

\* C16 witness: the predicate returned True for the 3x3 convolution from 8
\* to 16 channels.
C16_Witness ==
    /\ layer = Conv2d(<< 3, 3 >>, 8, 16)
    /\ returned = << TRUE >>

\* C17 as stated: in every epoch that does not halt each rank consults the
\* gate, then steps the learning-rate schedule, then enters the barrier: a
\* rank inside the barrier of epoch e has taken the schedule step of
\* epoch e.
C17_ScheduleStepBeforeBarrier ==
    \A r \in Ranks :
        pc[r] = "barrier_wait" =>
            /\ sched_steps[r] = epoch[r]
            /\ r = 0 => Len(objs) = epoch[r]

\* C17 amended: in every epoch that does not halt each rank passes line 360
\* (rank 0 consults the gate), then enters the barrier, and steps the
\* learning-rate schedule only when the barrier has returned: once per
\* epoch, after the barrier and before the next epoch starts.
C17_BarrierBeforeScheduleStep ==
    \A r \in Ranks :
        /\ sched_steps[r] <= barriers[r]
        /\ barriers[r] <= sched_steps[r] + 1
        /\ (InPass(r) \/ pc[r] \in {"gate", "barrier", "barrier_wait"}) =>
              sched_steps[r] = epoch[r] - 1
        /\ pc[r] = "sched" => /\ barriers[r] = epoch[r]
                              /\ sched_steps[r] = epoch[r] - 1
        /\ pc[r] = "epoch_head" => /\ sched_steps[r] = epoch[r]
                                   /\ barriers[r] = epoch[r]
        /\ (r = 0 /\ pc[r] \in {"barrier", "barrier_wait", "sched"}) =>
              Len(objs) = epoch[r]

\* C17 witness: a rank has ended epoch 2 without halting: the gate was
\* consulted twice, two barriers returned, two schedule steps followed.
C17_Witness ==
    /\ pc[0] = "epoch_head"
    /\ epoch[0] = 2
    /\ Len(objs) = 2
    /\ barriers[0] = 2
    /\ sched_steps[0] = 2
    /\ stopEpoch = 0

\* The mean over the batches of the validation pass of what f takes from
\* each batch's criterion output.
RECURSIVE SumProduced(_, _, _)
SumProduced(f(_), k, produced) ==
    IF produced = << >> THEN 0
    ELSE f(Head(produced))[k] + SumProduced(f, k, Tail(produced))

ValBox(t) == BoxEntries(t.box)
ValEvent(t) == EventEntries(t.event)

\* C18: every component of the row finalized at the end of a validation
\* pass, the four box-level precision/recall entries included, is the
\* running mean of the values the loss module produced for the batches of
\* that validation pass; no value of the training pass contributes.
C18_ValidationRowFromValidationOnly ==
    l_pc = "l_gate" =>
        /\ Len(val_produced) = n_val
        /\ \A k \in 1 .. 2 :
              vmetrics[k] = Rat(SumProduced(ValEvent, k, val_produced), n_val)
        /\ \A k \in 1 .. 4 :
              vboxmetrics[k] = Rat(SumProduced(ValBox, k, val_produced), n_val)

\* Rank 0 has passed line 360 in its current epoch.
PastGate == pc[0] \in {"barrier", "barrier_wait", "sched", "epoch_head",
                       "cleanup", "done"}

\* The sum of the components of rank 0's vloss.
VlossSum ==
    LET s3 == RAdd(RAdd(vloss[0][LOC], vloss[0][CLS]), vloss[0][REG])
    IN  IF disco_mode THEN RAdd(s3, vloss[0][DISCO]) ELSE s3

\* C19: only rank 0 evaluates the gate and changes the early-stopping
\* state; it consults the gate exactly once per epoch, after the epoch's
\* validation pass has finished on rank 0, with the sum of the epoch's
\* reduced validation loss components plus the regularization scalar,
\* which is zero when the FLOP regularizer is off.
C19_GateOnRankZeroOncePerEpoch ==
    /\ Len(objs) <= epoch[0]
    /\ Len(objs) >= epoch[0] - 1
    /\ (InPass(0) \/ pc[0] = "gate") => Len(objs) = epoch[0] - 1
    /\ PastGate => Len(objs) = epoch[0]
    /\ (PastGate /\ epoch[0] >= 1) =>
          /\ objs[Len(objs)] = RAdd(VlossSum, Rat(rflop[0], 1))
          /\ ~flop_regularizer => objs[Len(objs)] = VlossSum
    /\ ~flop_regularizer => \A r \in Ranks : rflop[r] = 0

\* C19 witness: rank 0 has consulted the gate for epoch 2 with an objective
\* that includes a nonzero regularization scalar, rank 1 has passed line 360
\* of epoch 2 as well, and the gate was consulted twice in all.
C19_Witness ==
    /\ pc[0] = "barrier"
    /\ pc[1] = "barrier_wait"
    /\ epoch[0] = 2
    /\ epoch[1] = 2
    /\ Len(objs) = 2
    /\ flop_regularizer
    /\ rflop[0] = 1
    /\ objs[2] = RAdd(VlossSum, Rat(1, 1))
    /\ objs[2] # VlossSum

\* The reductions of one validation batch, in the order of reduce_tensor.
ReductionOrder ==
    IF disco_mode THEN << LOC, CLS, REG, DISCO >> ELSE << LOC, CLS, REG >>

\* s is the first Len(s) elements of t.
IsPrefix(s, t) == Len(s) <= Len(t) /\ \A k \in 1 .. Len(s) : s[k] = t[k]

\* The ranks that have entered the collective in progress and have not
\* returned from it.
InCollective == coll.arrived \ coll.departed

ColumnsEqual(h) == \A k \in 1 .. Len(h) : h[k] = h[1]

\* The weights a forward pass runs with when the network holds w: the
\* eligible layers ternarized in ternary mode.
Forward(w) ==
    [m \in Modules |-> IF Quantized(m) THEN to_ternary_default(w[m])
                        ELSE w[m]]

\* The eligible layers start within [-1, 1].
StartsInRange == \A m \in Eligible : InRange(w_init[m])

InEpoch == t_epoch >= 1 /\ t_pc \notin {"t_head", "t_cleanup", "t_done", "idle"}

\* Training batches of the current epoch whose ternarization has run.
Ternarized ==
    t_batch + (IF t_pc \in {"t_forward", "t_restore", "t_opt", "t_clamp"}
               THEN 1 ELSE 0)

\* C21: in ternary mode, within an epoch, delta and alpha of every eligible
\* layer have been assigned exactly once, before the first training batch
\* (the first entry of the epoch's record, and the only assignment in it);
\* every ternarization of the epoch's batch loop used that delta and alpha,
\* one per batch, and the attributes still hold them at every step of the
\* loop (ternarize, restore, optimizer step, clamp).
C21_DeltaAlphaOncePerEpoch ==
    (ternary /\ InEpoch) =>
        \A m \in Eligible :
            /\ Len(da_log[m]) = 1 + Ternarized
            /\ da_log[m][1][1] = "assign"
            /\ \A k \in 2 .. Len(da_log[m]) :
                  da_log[m][k] = << "use", da_log[m][1][2], da_log[m][1][3] >>
            /\ weight_delta[m] = da_log[m][1][2]
            /\ weight_alpha[m] = da_log[m][1][3]

\* C21 witness: ternary mode, second epoch, second batch just clamped; the
\* weights have changed since the epoch's refresh (deriving delta from
\* them now would give another value), and both batches used the
\* refresh's delta and alpha.
C21_Witness ==
    /\ ternary
    /\ t_epoch = 2
    /\ t_pc = "t_train"
    /\ t_batch = 2
    /\ \E m \in Eligible :
          /\ Len(da_log[m]) = 3
          /\ da_log[m][3] = << "use", da_log[m][1][2], da_log[m][1][3] >>
          /\ get_delta(weight_data[m]) # weight_delta[m]

\* Epochs whose training pass has been finalized (lines 262-268).
TrainingDone == IF l_pc = "l_train" THEN l_epoch - 1 ELSE l_epoch

\* Epochs whose validation pass has been completed (lines 333-339).
ValidationDone ==
    IF l_pc \in {"l_train", "l_val"} THEN l_epoch - 1 ELSE l_epoch

\* Every column of the history h has n rows.
RowsAre(h, n) == \A k \in 1 .. Len(h) : Len(h[k]) = n

\* C22: on a rank, after k epochs have completed their validation pass
\* each validation history has exactly k columns, and so has each training
\* history until the next training pass is finalized (from then on one
\* more); loss columns have 3 rows (4 in decorrelation mode), event-metric
\* columns 2, box-metric columns 4; and no step changes a column already
\* appended.
C22_HistoryBookkeeping ==
    /\ [](/\ Len(val_loss) = ValidationDone
          /\ Len(val_metrics) = ValidationDone
          /\ Len(val_boxmetrics) = ValidationDone
          /\ Len(train_loss) = TrainingDone
          /\ Len(train_metrics) = TrainingDone
          /\ Len(train_boxmetrics) = TrainingDone
          /\ RowsAre(train_loss, IF disco_mode THEN 4 ELSE 3)
          /\ RowsAre(val_loss, IF disco_mode THEN 4 ELSE 3)
          /\ RowsAre(train_metrics, 2)
          /\ RowsAre(val_metrics, 2)
          /\ RowsAre(train_boxmetrics, 4)
          /\ RowsAre(val_boxmetrics, 4))
    /\ [][/\ IsPrefix(train_loss, train_loss')
          /\ IsPrefix(val_loss, val_loss')
          /\ IsPrefix(train_metrics, train_metrics')
          /\ IsPrefix(val_metrics, val_metrics')
          /\ IsPrefix(train_boxmetrics, train_boxmetrics')
          /\ IsPrefix(val_boxmetrics, val_boxmetrics')]_vars

\* C22 witness: decorrelation mode, the third epoch has completed its
\* validation pass, all six histories have three columns, and the epochs'
\* columns are not all alike.
C22_Witness ==
    /\ disco_mode
    /\ l_pc = "l_gate"
    /\ l_epoch = 3
    /\ Len(train_loss) = 3
    /\ Len(val_loss) = 3
    /\ Len(train_metrics) = 3
    /\ Len(val_metrics) = 3
    /\ Len(train_boxmetrics) = 3
    /\ Len(val_boxmetrics) = 3
    /\ Len(train_loss[3]) = 4
    /\ train_loss[1] # train_loss[2]
    /\ val_loss[2] # val_loss[3]
    /\ train_metrics[1] # train_metrics[3]
    /\ val_boxmetrics[1] # val_boxmetrics[3]

\* The gate has not signalled stop and no rank has raised.
Undisturbed == stopEpoch = 0 /\ \A r \in Ranks : pc[r] # "raised"

\* Every rank has run all max_epochs epochs and returned from cleanup().
AllComplete ==
    \A r \in Ranks :
        /\ pc[r] = "done"
        /\ epoch[r] = max_epochs
        /\ barriers[r] = max_epochs
        /\ ~in_group[r]

\* C23: with the same number of training and validation batches on every
\* rank, a run in which the gate never signals stop (and no rank raises)
\* eventually has every rank through all max_epochs epochs and through
\* cleanup(); until then some rank can always execute its next statement
\* (no state has every unfinished rank blocked at a reduction or barrier).
C23_DeadlockFreeCompletion ==
    /\ [](Undisturbed =>
            \/ AllComplete
            \/ \E r \in Ranks : pc[r] = "gate" \/ ENABLED Run(r))
    /\ <>(~Undisturbed \/ AllComplete)

\* C23 witness: an undisturbed run has completed: all ranks done, after
\* max_epochs epochs, barriers and gate consultations without a stop.
C23_Witness ==
    /\ Undisturbed
    /\ AllComplete
    /\ Len(objs) = max_epochs
    /\ \A r \in Ranks : sched_steps[r] = max_epochs

=============================================================================
